---- MODULE Spec2Model ----
(***************************************************************************)
(* Model of swagger_marshmallow_codegen/schema/composed.py: the oneOf and  *)
(* anyOf composite schemas, their SchemaFinder, and the composed           *)
(* marshaller / unmarshaller that run every candidate variant, aggregate   *)
(* the outcomes with final_check and merge the composite's own (self)      *)
(* outcome.                                                                *)
(*                                                                         *)
(* Conventions.  A Python dict is a function whose DOMAIN is its key set.  *)
(* A Python list is a sequence; Python index k is position k+1 here.       *)
(* An error message is a record [template, args]: str.format fills args    *)
(* into template, and startswith on the literal prefix is a test on the    *)
(* template.  The variant schemas' own dump/load and the composite's own   *)
(* base marshaller are marshmallow code: their outcomes are chosen         *)
(* nondeterministically from small sets.                                   *)
(***************************************************************************)
EXTENDS Integers, Sequences, FiniteSets, TLC

\* ------------------------------------------------------------- bounds
MaxVariants == 3
MaxBatch == 2
MaxBatchVariants == 1

\* ------------------------------------------------------------- dicts
EmptyDict == [k \in {} |-> <<>>]

\* dict.update(other): the keys of other are added, other's value winning
Update(dict, other) ==
    [k \in (DOMAIN dict) \cup (DOMAIN other) |->
        IF k \in DOMAIN other THEN other[k] ELSE dict[k]]

\* dict.pop(key) for a key that is present: the dict without the key
Pop(dict, key) == [k \in (DOMAIN dict) \ {key} |-> dict[k]]

\* dict.get(key) or []
GetOrEmpty(dict, key) == IF key \in DOMAIN dict THEN dict[key] ELSE <<>>

\* results[0].update(other) for every other of results[1:], in order: the
\* content of results[0] afterwards (results is not empty)
RECURSIVE UpdateAll(_)
UpdateAll(results) ==
    IF Len(results) = 1 THEN results[1]
    ELSE Update(UpdateAll(SubSeq(results, 1, Len(results) - 1)), results[Len(results)])

\* all the dicts over the keys ks with values in vs
DictsOver(ks, vs) == UNION {[d -> vs] : d \in SUBSET ks}

\* all the sequences over S of length lo..hi
SeqsOf(S, lo, hi) == UNION {[1..n -> S] : n \in lo..hi}

\* ------------------------------------------------------------- messages
NotMatchedTemplate == "not matched, any of {}"
SatisfiedTemplate == "satisfied both of {}, not only one"
SelfAndOthersText == "satisfied both of self and others, not only one"
InvalidText == "Invalid value."

Format(template, args) == [template |-> template, args |-> args]
Literal(text) == [template |-> text, args |-> <<>>]

\* msg.startswith("not matched, any of")
StartsWithNotMatched(msg) == msg.template = NotMatchedTemplate

\* all(msg.startswith("not matched, any of") for msg in errors.get("_schema") or [])
AllNotMatched(errors) ==
    \A k \in 1..Len(GetOrEmpty(errors, "_schema")) :
        StartsWithNotMatched(GetOrEmpty(errors, "_schema")[k])

SchemaError(msg) == [k \in {"_schema"} |-> <<msg>>]

\* ------------------------------------------------------------- configuration
\* field names of the payloads and of the variants' values
FieldNames == {"x", "y"}

\* the variant schema classes of the composite and their required fields
ClassNames == {"A", "B", "C", "D"}
RequiredOf(c) == CASE c = "A" -> {"x"} [] c = "B" -> {"y"} [] c = "C" -> {"x"} [] c = "D" -> {}

\* an instance cls(strict=False, many=False) of a variant class
Instance(c) == [name |-> c, required |-> RequiredOf(c)]

\* Meta.discriminator: None, or a dict with "fieldname" and maybe "mapping"
DiscField == "type"
NoDiscriminator == [set |-> FALSE, fieldname |-> "", has_mapping |-> FALSE, mapping |-> EmptyDict]
DiscriminatorByName == [set |-> TRUE, fieldname |-> DiscField, has_mapping |-> FALSE, mapping |-> EmptyDict]
DiscriminatorMapped(m) == [set |-> TRUE, fieldname |-> DiscField, has_mapping |-> TRUE, mapping |-> m]

None == "None"

\* _detect_include_self: "self" is taken out of the list and sets the flag
RECURSIVE _detect_include_self(_)
_detect_include_self(schema_classes) ==
    IF schema_classes = <<>> THEN [classes |-> <<>>, include_self |-> FALSE]
    ELSE LET n == Len(schema_classes)
             rest == _detect_include_self(SubSeq(schema_classes, 1, n - 1))
             c == schema_classes[n]
         IN  IF c = "self"
             THEN [classes |-> rest.classes, include_self |-> TRUE]
             ELSE [classes |-> Append(rest.classes, c), include_self |-> rest.include_self]

\* ------------------------------------------------------------- SchemaFinder
\* SchemaFinder.__init__: the name of the discriminator field, or None
FinderName(discriminator) == IF discriminator.set THEN discriminator.fieldname ELSE None

\* SchemaFinder.__init__: discriminator value -> schema (the empty dict stands
\* for None; it is read only when the name is set)
FinderMapping(schs, discriminator) ==
    IF ~discriminator.set THEN EmptyDict
    ELSE IF ~discriminator.has_mapping
    THEN [nm \in {schs[k].name : k \in 1..Len(schs)} |->
            CHOOSE s \in {schs[k] : k \in 1..Len(schs)} : s.name = nm]
    ELSE [nm \in DOMAIN discriminator.mapping |->
            CHOOSE s \in {schs[k] : k \in 1..Len(schs)} : s.name = discriminator.mapping[nm]]

\* tuple(sorted(required names)): the canonical form of the set of names
Signature(s) == s.required

\* d[sig] = s on an OrderedDict kept as a list of items: a key already there
\* keeps its place and takes the new value, a new key goes to the end
PutItem(items, sig, s) ==
    IF \E k \in 1..Len(items) : items[k].sig = sig
    THEN [k \in 1..Len(items) |->
            IF items[k].sig = sig THEN [sig |-> sig, s |-> s] ELSE items[k]]
    ELSE Append(items, [sig |-> sig, s |-> s])

\* SchemaFinder.signature_mapping
RECURSIVE SignatureMapping(_)
SignatureMapping(schs) ==
    IF schs = <<>> THEN <<>>
    ELSE LET n == Len(schs)
         IN  PutItem(SignatureMapping(SubSeq(schs, 1, n - 1)), Signature(schs[n]), schs[n])

\* the discriminator branch shared by find_matched_schemas and find_schemas:
\* a one-element tuple, or KeyError from either of the two subscripts
ByDiscriminator(name, mapping, payload) ==
    IF name \notin DOMAIN payload THEN [raised |-> TRUE, schemas |-> <<>>]
    ELSE IF payload[name] \notin DOMAIN mapping THEN [raised |-> TRUE, schemas |-> <<>>]
    ELSE [raised |-> FALSE, schemas |-> <<mapping[payload[name]]>>]

\* the loop of find_matched_schemas over the items of the signature mapping
RECURSIVE MatchItems(_, _)
MatchItems(items, payload) ==
    IF items = <<>> THEN <<>>
    ELSE LET n == Len(items)
             r == MatchItems(SubSeq(items, 1, n - 1), payload)
         IN  IF \A k \in items[n].sig : k \in DOMAIN payload
             THEN Append(r, items[n].s)
             ELSE r

\* SchemaFinder.find_matched_schemas
find_matched_schemas(name, mapping, items, payload) ==
    IF name # None THEN ByDiscriminator(name, mapping, payload)
    ELSE [raised |-> FALSE, schemas |-> MatchItems(items, payload)]

\* SchemaFinder.find_schemas
find_schemas(name, mapping, schs, payload) ==
    IF name # None THEN ByDiscriminator(name, mapping, payload)
    ELSE [raised |-> FALSE, schemas |-> schs]

\* ------------------------------------------------------------- final_check
\* Compacted without the test "if not err": every candidate's value is kept
CompactedKeepsFailed(outs) == [k \in 1..Len(outs) |-> outs[k].value]

\* the candidates' values whose errors are empty: the list compacted
RECURSIVE Compacted(_)
Compacted(outs) ==
    IF outs = <<>> THEN <<>>
    ELSE LET n == Len(outs)
             r == Compacted(SubSeq(outs, 1, n - 1))
         IN  IF outs[n].errors = EmptyDict THEN Append(r, outs[n].value) ELSE r

\* Satisfied indexing schemas by the position in compacted: the names of the
\* first len(compacted) candidates
SatisfiedByPosition(schs, outs) ==
    [k \in 1..Len(Compacted(outs)) |-> schs[k].name]

\* the list satisfied of OneOfSchema.final_check
RECURSIVE Satisfied(_, _)
Satisfied(schs, outs) ==
    IF outs = <<>> THEN <<>>
    ELSE LET n == Len(outs)
             r == Satisfied(schs, SubSeq(outs, 1, n - 1))
         IN  IF outs[n].errors = EmptyDict THEN Append(r, schs[n].name) ELSE r

NamesOf(schs) == [k \in 1..Len(schs) |-> schs[k].name]

\* Fallback without the loop of updates: results[0] as it was returned
FallbackFirstOnly(payload, outs) ==
    IF outs = <<>>
    THEN [ref |-> "data", value |-> payload]
    ELSE [ref |-> "fresh", value |-> outs[1].value]

\* the value of the branch len(compacted) == 0: results[0] after the updates,
\* or the payload object itself when there is no result
Fallback(payload, outs) ==
    IF outs = <<>>
    THEN [ref |-> "data", value |-> payload]
    ELSE [ref |-> "fresh", value |-> UpdateAll([k \in 1..Len(outs) |-> outs[k].value])]

\* OneOfSchema.final_check returning results[0] for a single match
OneOfFinalCheckFirstResult(all_schemas, incl_self, payload, schs, outs) ==
    LET compacted == Compacted(outs)
    IN  IF Len(compacted) = 1
        THEN [ref |-> "fresh", value |-> outs[1].value, errors |-> EmptyDict]
        ELSE IF Len(compacted) > 1
        THEN [ref |-> "fresh", value |-> UpdateAll(compacted),
              errors |-> SchemaError(Format(SatisfiedTemplate, Satisfied(schs, outs)))]
        ELSE LET candidates == IF incl_self THEN Append(NamesOf(all_schemas), "self")
                                            ELSE NamesOf(all_schemas)
                 fb == Fallback(payload, outs)
             IN  [ref |-> fb.ref, value |-> fb.value,
                  errors |-> SchemaError(Format(NotMatchedTemplate, candidates))]

\* OneOfSchema.final_check; all_schemas is self.schemas, schs the candidates
OneOfFinalCheck(all_schemas, incl_self, payload, schs, outs) ==
    LET compacted == Compacted(outs)
    IN  IF Len(compacted) = 1
        THEN [ref |-> "fresh", value |-> compacted[1], errors |-> EmptyDict]
        ELSE IF Len(compacted) > 1
        THEN [ref |-> "fresh", value |-> UpdateAll(compacted),
              errors |-> SchemaError(Format(SatisfiedTemplate, Satisfied(schs, outs)))]
        ELSE LET candidates == IF incl_self THEN Append(NamesOf(all_schemas), "self")
                                            ELSE NamesOf(all_schemas)
                 fb == Fallback(payload, outs)
             IN  [ref |-> fb.ref, value |-> fb.value,
                  errors |-> SchemaError(Format(NotMatchedTemplate, candidates))]

\* AnyOfSchema.final_check
AnyOfFinalCheck(all_schemas, payload, schs, outs) ==
    LET compacted == Compacted(outs)
    IN  IF Len(compacted) >= 1
        THEN [ref |-> "fresh", value |-> UpdateAll(compacted), errors |-> EmptyDict]
        ELSE LET fb == Fallback(payload, outs)
             IN  [ref |-> fb.ref, value |-> fb.value,
                  errors |-> SchemaError(Format(NotMatchedTemplate, NamesOf(all_schemas)))]

\* ------------------------------------------------------------- self merge
\* an optional dict: self_errors is None or the base marshaller's errors
NoErrors == [none |-> TRUE, val |-> EmptyDict]
Some(e) == [none |-> FALSE, val |-> e]

\* _merge_errors_one_for_include_self with the test of the first branch
\* turned round: self_errors joins the "not matched" errors
MergeOneSelfErrorsOnNotMatched(errs, self_errs) ==
    IF ~self_errs.none
    THEN IF AllNotMatched(errs) THEN Update(errs, self_errs.val) ELSE errs
    ELSE IF errs = EmptyDict
         THEN Update(errs, SchemaError(Literal(SelfAndOthersText)))
         ELSE IF AllNotMatched(errs) THEN Pop(errs, "_schema") ELSE errs

\* _merge_errors_one_for_include_self (errors.pop("_schema") is reached only
\* with a "_schema" key: final_check's errors are empty or hold that key alone)
_merge_errors_one_for_include_self(errs, self_errs) ==
    IF ~self_errs.none
    THEN IF ~AllNotMatched(errs) THEN Update(errs, self_errs.val) ELSE errs
    ELSE IF errs = EmptyDict
         THEN Update(errs, SchemaError(Literal(SelfAndOthersText)))
         ELSE IF AllNotMatched(errs) THEN Pop(errs, "_schema") ELSE errs

\* self_errors if self_errors is None else self_errors.get(i)
SelfErrorsAt(self_errs, i) ==
    IF self_errs.none THEN NoErrors
    ELSE IF i \in DOMAIN self_errs.val THEN Some(self_errs.val[i]) ELSE NoErrors

\* _merge_errors_for_include_self, many=True: only the indices already in
\* errors are rewritten, and each keeps its key
MergeMany(errs, self_errs, size) ==
    [i \in DOMAIN errs |->
        IF i \in 1..size
        THEN _merge_errors_one_for_include_self(errs[i], SelfErrorsAt(self_errs, i))
        ELSE errs[i]]

\* _merge_errors_for_include_self
_merge_errors_for_include_self(errs, self_errs, is_many, size) ==
    IF is_many THEN MergeMany(errs, self_errs, size)
    ELSE _merge_errors_one_for_include_self(errs, self_errs)

\* ------------------------------------------------------------- inputs
\* the values a discriminator field may hold: the name of a class, and a key
\* of an explicit mapping
DiscValues == {"A", "a"}

\* the payloads: any of the fields, and maybe the discriminator field
Payloads ==
    {p \in DictsOver(FieldNames \cup {DiscField}, {"1"} \cup DiscValues) :
        \A k \in DOMAIN p : (k = DiscField) <=> (p[k] \in DiscValues)}

\* a composite without a discriminator is given payloads without that field
PayloadsFor(name) ==
    IF name = None THEN {p \in Payloads : DiscField \notin DOMAIN p} ELSE Payloads

\* what a schema's dump or load returns: a value and an error dict
FieldError == [k \in {"x"} |-> <<Literal(InvalidText)>>]
SchemaLevelError == SchemaError(Literal(InvalidText))
CandidateValues == {[k \in {"x"} |-> "1"], [k \in {"x", "y"} |-> "2"]}
Outcomes == [value : CandidateValues, errors : {EmptyDict, FieldError}]
SelfValues == {EmptyDict, [k \in {"x"} |-> "2"]}
SelfOutcomes == [value : SelfValues, errors : {EmptyDict, FieldError, SchemaLevelError}]

\* the items of a batch: the payloads without the field "y"
BatchPayloadsFor(name) == {p \in PayloadsFor(name) : "y" \notin DOMAIN p}

\* the declared schema_classes: one to MaxVariants distinct classes, and "self"
\* at most once, anywhere
Declarations ==
    {decl \in SeqsOf(ClassNames \cup {"self"}, 1, MaxVariants + 1) :
        /\ \A a, b \in 1..Len(decl) : decl[a] = decl[b] => a = b
        /\ Cardinality({a \in 1..Len(decl) : decl[a] # "self"}) \in 1..MaxVariants}

Discriminators(classes) ==
    {NoDiscriminator, DiscriminatorByName}
        \cup {DiscriminatorMapped([v \in {"a"} |-> c]) : c \in {classes[k] : k \in 1..Len(classes)}}

\* ------------------------------------------------------------- state
VARIABLES
    policy,                \* "oneOf" or "anyOf": the class of the composite
    include_self,          \* cls.include_self after _detect_include_self
    schemas,               \* self.schemas: the variant instances, declared order
    discriminator_name,    \* finder.discriminator_name
    discriminator_mapping, \* finder.discriminator_mapping
    signature_mapping,     \* the reified finder.signature_mapping, once computed
    pc,                    \* "idle", "items", "finish" or "done"
    op,                    \* "dump" (marshall) or "load" (unmarshall)
    many,                  \* the many flag of the call
    data,                  \* the caller's payload objects (one when not many)
    before,                \* the content of the payloads when the call began
    result,                \* the base marshaller's values, one per item
    self_errors,           \* the base marshaller's errors, or None
    i,                     \* the item the loop of run_many is at
    d,                     \* the values collected so far: [ref, value]
    errors,                \* the errors collected so far; self.errors at the end
    frame,                 \* the locals of the last _marshall_one/_unmarshall_one
    raised                 \* the exception that left the call, or None

vars == <<policy, include_self, schemas, discriminator_name, discriminator_mapping,
          signature_mapping, pc, op, many, data, before, result, self_errors, i, d,
          errors, frame, raised>>

config == <<policy, include_self, schemas, discriminator_name, discriminator_mapping>>

NoFrame == [valid |-> FALSE, item |-> 0, schemas |-> <<>>, outs |-> <<>>,
            ref |-> "fresh", value |-> EmptyDict, errors |-> EmptyDict]

\* OneOfSchema.__init__ / AnyOfSchema.__init__ have run for a composite class.
\* Only OneOfSchema detects "self"; AnyOfSchema instantiates every entry, so
\* its declaration holds classes alone.  A mapped discriminator names declared
\* classes (mapping[cls] of SchemaFinder.__init__ fails otherwise).
Init ==
    /\ \E pol \in {"oneOf", "anyOf"}, decl \in Declarations :
        LET det == IF pol = "oneOf" THEN _detect_include_self(decl)
                   ELSE [classes |-> decl, include_self |-> FALSE]
            insts == [k \in 1..Len(det.classes) |-> Instance(det.classes[k])]
        IN  /\ pol = "anyOf" => \A k \in 1..Len(decl) : decl[k] # "self"
            /\ policy = pol
            /\ include_self = det.include_self
            /\ schemas = insts
            /\ \E disc \in Discriminators(det.classes) :
                /\ discriminator_name = FinderName(disc)
                /\ discriminator_mapping = FinderMapping(insts, disc)
    /\ signature_mapping = [computed |-> FALSE, items |-> <<>>]
    /\ pc = "idle"
    /\ op = "dump"
    /\ many = FALSE
    /\ data = <<>>
    /\ before = <<>>
    /\ result = <<>>
    /\ self_errors = NoErrors
    /\ i = 1
    /\ d = <<>>
    /\ errors = EmptyDict
    /\ frame = NoFrame
    /\ raised = None

\* ------------------------------------------------------------- the call
\* self.errors of the base marshaller after a ValidationError: keyed by item
\* index when many, the item's own errors otherwise; None when nothing failed
BaseErrors(is_many, outs) ==
    LET failing == {k \in 1..Len(outs) : outs[k].errors # EmptyDict}
    IN  IF failing = {} THEN NoErrors
        ELSE IF is_many THEN Some([k \in failing |-> outs[k].errors])
        ELSE Some(outs[1].errors)

\* the head of marshall / unmarshall: reset_errors and the base marshaller's
\* own run over the input
Begin(operation, is_many, payloads, self_outs) ==
    /\ pc = "idle"
    /\ pc' = IF payloads = <<>> THEN "finish" ELSE "items"
    /\ op' = operation
    /\ many' = is_many
    /\ data' = payloads
    /\ before' = payloads
    /\ result' = [k \in 1..Len(self_outs) |-> self_outs[k].value]
    /\ self_errors' = BaseErrors(is_many, self_outs)
    /\ i' = 1
    /\ d' = <<>>
    /\ errors' = EmptyDict
    /\ frame' = NoFrame
    /\ raised' = None
    /\ UNCHANGED <<config, signature_mapping>>

\* final_check of the composite's class
FinalCheck(payload, schs, outs) ==
    IF policy = "oneOf"
    THEN OneOfFinalCheck(schemas, include_self, payload, schs, outs)
    ELSE AnyOfFinalCheck(schemas, payload, schs, outs)

\* one pass of the loop of run_many (the only pass when not many): the finder,
\* every candidate's dump or load, final_check, and the two appends.  A
\* KeyError of the finder leaves the call at once.
One(found) ==
    /\ pc = "items"
    /\ i <= Len(data)
    /\ IF found.raised
       THEN /\ pc' = "done"
            /\ raised' = "KeyError"
            /\ UNCHANGED <<i, d, errors, frame>>
       ELSE \E outs \in [1..Len(found.schemas) -> Outcomes] :
            LET fc == FinalCheck(data[i], found.schemas, outs)
            IN  /\ frame' = [valid |-> TRUE, item |-> i, schemas |-> found.schemas,
                             outs |-> outs, ref |-> fc.ref, value |-> fc.value,
                             errors |-> fc.errors]
                /\ d' = Append(d, [ref |-> fc.ref, value |-> fc.value])
                /\ errors' = IF ~many THEN fc.errors
                             ELSE IF fc.errors # EmptyDict
                             THEN [k \in (DOMAIN errors) \cup {i} |->
                                     IF k = i THEN fc.errors ELSE errors[k]]
                             ELSE errors
                /\ i' = i + 1
                /\ pc' = IF i = Len(data) THEN "finish" ELSE "items"
                /\ UNCHANGED raised
    /\ UNCHANGED <<config, op, many, data, before, result, self_errors>>

\* the signature mapping as the reified property gives it: computed at the
\* first read, the stored one afterwards
ReadSignatureMapping ==
    IF signature_mapping.computed THEN signature_mapping.items
    ELSE SignatureMapping(schemas)

\* ComposedMarshaller._marshall_one on the item the loop is at
MarshallOne ==
    /\ pc = "items"
    /\ op = "dump"
    /\ i <= Len(data)
    /\ One(find_matched_schemas(discriminator_name, discriminator_mapping,
                                ReadSignatureMapping, data[i]))
    /\ signature_mapping' =
        IF discriminator_name = None
        THEN [computed |-> TRUE, items |-> ReadSignatureMapping]
        ELSE signature_mapping

\* ComposedUnmarshaller._unmarshall_one on the item the loop is at
UnmarshallOne ==
    /\ pc = "items"
    /\ op = "load"
    /\ i <= Len(data)
    /\ One(find_schemas(discriminator_name, discriminator_mapping, schemas, data[i]))
    /\ UNCHANGED signature_mapping

\* d[i].update(result[i]): a value that is the payload object itself changes
\* the caller's payload
UpdatedValues == [k \in 1..Len(d) |-> [ref |-> d[k].ref, value |-> Update(d[k].value, result[k])]]

UpdatedData ==
    [k \in 1..Len(data) |-> IF d[k].ref = "data" THEN Update(data[k], result[k]) ELSE data[k]]

\* the errors of the call: merged with the base marshaller's
FinalErrors ==
    IF ~include_self
    THEN IF ~self_errors.none THEN Update(errors, self_errors.val) ELSE errors
    ELSE _merge_errors_for_include_self(errors, self_errors, many,
                                        IF many THEN Len(result) ELSE 1)

\* the tail of marshall / unmarshall, after the items
Finish ==
    /\ pc = "finish"
    /\ d' = UpdatedValues
    /\ data' = UpdatedData
    /\ errors' = FinalErrors
    /\ pc' = "done"
    /\ raised' = IF op = "dump" /\ FinalErrors # EmptyDict THEN "ValidationError" ELSE None
    /\ UNCHANGED <<config, signature_mapping, op, many, before, result, self_errors, i, frame>>

\* ComposedMarshaller.marshall of one object
MarshallSingle ==
    /\ pc = "idle"
    /\ \E p \in PayloadsFor(discriminator_name), so \in SelfOutcomes :
        Begin("dump", FALSE, <<p>>, <<so>>)

\* ComposedUnmarshaller.unmarshall of one payload
UnmarshallSingle ==
    /\ pc = "idle"
    /\ \E p \in PayloadsFor(discriminator_name), so \in SelfOutcomes :
        Begin("load", FALSE, <<p>>, <<so>>)

\* marshall / unmarshall with many=True
MarshallMany ==
    /\ pc = "idle"
    /\ \E n \in 0..MaxBatch :
        \E ps \in [1..n -> BatchPayloadsFor(discriminator_name)], sos \in [1..n -> SelfOutcomes] :
            Begin("dump", TRUE, ps, sos)

UnmarshallMany ==
    /\ pc = "idle"
    /\ \E n \in 0..MaxBatch :
        \E ps \in [1..n -> BatchPayloadsFor(discriminator_name)], sos \in [1..n -> SelfOutcomes] :
            Begin("load", TRUE, ps, sos)

\* calls with many=False
Next ==
    \/ MarshallSingle
    \/ UnmarshallSingle
    \/ MarshallOne
    \/ UnmarshallOne
    \/ Finish

Spec == Init /\ [][Next]_vars

\* calls with many=True, on the composites of at most MaxBatchVariants variants
InitMany == Init /\ Len(schemas) <= MaxBatchVariants

NextMany ==
    \/ MarshallMany
    \/ UnmarshallMany
    \/ MarshallOne
    \/ UnmarshallOne
    \/ Finish

SpecMany == InitMany /\ [][NextMany]_vars

\* ------------------------------------------------------------- properties
\* the candidates of the last item whose own errors were empty
Successes == {k \in 1..Len(frame.outs) : frame.outs[k].errors = EmptyDict}

\* the payload the last item was, as the caller passed it
FramePayload == before[frame.item]

\* the dict holding, for every key of a value of S, the value of the last
\* candidate of S that has the key
LastWins(S) ==
    [key \in UNION {DOMAIN frame.outs[k].value : k \in S} |->
        LET last == CHOOSE k \in S :
                        /\ key \in DOMAIN frame.outs[k].value
                        /\ \A j \in S : j > k => key \notin DOMAIN frame.outs[j].value
        IN  frame.outs[last].value[key]]

\* names lists the names of the candidates of S, each once, in candidate order
NamesExactly(names, S) ==
    /\ Len(names) = Cardinality(S)
    /\ \A k \in S :
        names[Cardinality({j \in S : j <= k})] = frame.schemas[k].name

\* errs is the one message template.format(args) under "_schema"
IsSchemaMessage(errs, template) ==
    /\ DOMAIN errs = {"_schema"}
    /\ Len(errs["_schema"]) = 1
    /\ errs["_schema"][1].template = template

\* the base schema accepted item k
SelfSucceeded(k) ==
    \/ self_errors.none
    \/ many /\ k \notin DOMAIN self_errors.val

\* the call came back from every item (no KeyError of the finder)
Completed == pc = "done" /\ raised # "KeyError" /\ frame.valid

\* C1: without a discriminator, find_matched_schemas returns a variant if and
\* only if every required field of the variant is a key of the payload, and
\* the returned variants are in declared order.
C1_MatchedIffRequiredPresent ==
    (frame.valid /\ op = "dump" /\ discriminator_name = None) =>
        /\ \A k \in 1..Len(schemas) :
            (\E j \in 1..Len(frame.schemas) : frame.schemas[j] = schemas[k])
                <=> (schemas[k].required \subseteq DOMAIN FramePayload)
        /\ \A a, b \in 1..Len(frame.schemas) :
            a < b => \E k, l \in 1..Len(schemas) :
                        k < l /\ schemas[k] = frame.schemas[a] /\ schemas[l] = frame.schemas[b]

\* C2: under oneOf without include_self, when exactly one candidate has empty
\* errors, final_check returns no error (no "_schema" key) and the value of
\* that candidate, wherever the candidate stands in the list.
C2_OneSuccessIsTheResult ==
    (frame.valid /\ policy = "oneOf" /\ ~include_self /\ Cardinality(Successes) = 1) =>
        \A k \in Successes :
            /\ frame.errors = EmptyDict
            /\ "_schema" \notin DOMAIN frame.errors
            /\ frame.value = frame.outs[k].value

\* C2 witness: the only successful candidate is the second one, and the first
\* one returned another value
C2_Witness ==
    /\ frame.valid /\ policy = "oneOf" /\ ~include_self
    /\ Len(frame.outs) >= 2
    /\ Successes = {2}
    /\ frame.outs[1].value # frame.outs[2].value

\* C3: under oneOf, when two or more candidates have empty errors, the errors
\* are _schema: ["satisfied both of {names}, not only one"], names being the
\* names of exactly the successful candidates in candidate order, and the value
\* is the first successful value updated by each later one in order.
C3_AmbiguousNamesTheSuccesses ==
    (frame.valid /\ policy = "oneOf" /\ Cardinality(Successes) >= 2) =>
        /\ IsSchemaMessage(frame.errors, SatisfiedTemplate)
        /\ NamesExactly(frame.errors["_schema"][1].args, Successes)
        /\ frame.value = LastWins(Successes)

\* C3 witness: three candidates, the middle one failed, the outer two
\* succeeded with different values for the same key
C3_Witness ==
    /\ frame.valid /\ policy = "oneOf"
    /\ Len(frame.outs) = 3
    /\ Successes = {1, 3}
    /\ frame.outs[1].value # frame.outs[3].value
    /\ frame.outs[2].value # frame.outs[3].value

\* C4: under oneOf, when no candidate has empty errors (the candidate list may
\* be empty), the errors are _schema: ["not matched, any of {candidates}"],
\* candidates being the names of all declared variants in declared order with
\* "self" appended if and only if include_self; the value is results[0]
\* updated by every other result in order, or the payload itself without results.
C4_NotMatchedListsDeclared ==
    (frame.valid /\ policy = "oneOf" /\ Successes = {}) =>
        /\ IsSchemaMessage(frame.errors, NotMatchedTemplate)
        /\ LET names == frame.errors["_schema"][1].args
           IN  /\ Len(names) = Len(schemas) + (IF include_self THEN 1 ELSE 0)
               /\ \A k \in 1..Len(schemas) : names[k] = schemas[k].name
               /\ include_self => names[Len(names)] = "self"
        /\ IF Len(frame.outs) = 0
           THEN frame.ref = "data" /\ frame.value = FramePayload
           ELSE frame.ref = "fresh" /\ frame.value = LastWins(1..Len(frame.outs))

\* C4 witness: include_self, fewer candidates than declared variants, two
\* candidates that both failed with different values
C4_Witness ==
    /\ frame.valid /\ policy = "oneOf" /\ include_self
    /\ Successes = {}
    /\ Len(frame.outs) = 2
    /\ Len(schemas) = 3
    /\ frame.outs[1].value # frame.outs[2].value

\* C5: under anyOf, when one or more candidates have empty errors, the errors
\* are empty and the value is the merge of the successful values in candidate
\* order, a later one's keys winning; a failed candidate contributes no key.
C5_AnyOfMergesSuccesses ==
    (frame.valid /\ policy = "anyOf" /\ Successes # {}) =>
        /\ frame.errors = EmptyDict
        /\ frame.value = LastWins(Successes)

\* C5 witness: two successes and a failed candidate whose value has a key that
\* the result does not hold
C5_Witness ==
    /\ frame.valid /\ policy = "anyOf"
    /\ Cardinality(Successes) = 2
    /\ \E k \in (1..Len(frame.outs)) \ Successes :
        \E key \in DOMAIN frame.outs[k].value : key \notin DOMAIN frame.value

\* C6: under oneOf with include_self, when self accepts a payload and no
\* alternative does, the outcome for the payload is a success: empty errors
\* for a single payload, no entry under the item's index in a batch.
C6_SelfAloneSucceeds ==
    (Completed /\ policy = "oneOf" /\ include_self
        /\ SelfSucceeded(frame.item) /\ Successes = {}) =>
        IF many THEN frame.item \notin DOMAIN errors ELSE errors = EmptyDict

\* C7: under oneOf with include_self, when self accepts a payload and exactly
\* one alternative does too, the errors for the payload are
\* _schema: ["satisfied both of self and others, not only one"], for a single
\* payload and under the item's index in a batch.
C7_SelfAndOneOther ==
    (Completed /\ policy = "oneOf" /\ include_self
        /\ SelfSucceeded(frame.item) /\ Cardinality(Successes) = 1) =>
        IF many
        THEN /\ frame.item \in DOMAIN errors
             /\ errors[frame.item] = SchemaError(Literal(SelfAndOthersText))
        ELSE errors = SchemaError(Literal(SelfAndOthersText))

\* C8: a batch is never left on the failure of an item: once the call is over
\* there is one value per input item, a failing item has its errors under its
\* index, and a missing or unmapped discriminator is no exception.
C8_BatchNeverAborts ==
    (pc = "done" /\ many) =>
        /\ raised # "KeyError"
        /\ Len(d) = Len(data)
        /\ (frame.valid /\ frame.errors # EmptyDict) => frame.item \in DOMAIN errors

\* C9 as stated: under oneOf with include_self, when self fails, "not matched"
\* errors of the aggregator are replaced by self_errors, and otherwise the
\* final errors hold both the aggregator's errors and self_errors.
C9_AsStated ==
    (Completed /\ ~many /\ policy = "oneOf" /\ include_self /\ ~self_errors.none) =>
        IF IsSchemaMessage(frame.errors, NotMatchedTemplate)
        THEN errors = self_errors.val
        ELSE /\ \A k \in DOMAIN frame.errors :
                k \in DOMAIN errors /\ errors[k] = frame.errors[k]
             /\ \A k \in DOMAIN self_errors.val :
                k \in DOMAIN errors /\ errors[k] = self_errors.val[k]

\* C9 amended: under oneOf with include_self, for a single payload that self
\* rejects: when every "_schema" message of the aggregator starts with "not
\* matched, any of" (also when the aggregator has no error at all) the final
\* errors are the aggregator's errors and self_errors is dropped; otherwise
\* the final errors are the aggregator's errors updated with self_errors,
\* self_errors winning on a key both hold.
C9_SelfErrorsOnlyJoinAmbiguity ==
    (Completed /\ ~many /\ policy = "oneOf" /\ include_self /\ ~self_errors.none) =>
        IF frame.errors = EmptyDict \/ IsSchemaMessage(frame.errors, NotMatchedTemplate)
        THEN errors = frame.errors
        ELSE /\ DOMAIN errors = (DOMAIN frame.errors) \cup (DOMAIN self_errors.val)
             /\ \A k \in DOMAIN self_errors.val : errors[k] = self_errors.val[k]
             /\ \A k \in (DOMAIN frame.errors) \ (DOMAIN self_errors.val) :
                errors[k] = frame.errors[k]

\* C9 witness: self failed on a field, no alternative matched, and the call
\* ended with the "not matched" message alone
C9_Witness ==
    /\ Completed /\ ~many /\ policy = "oneOf" /\ include_self
    /\ ~self_errors.none
    /\ Successes = {}
    /\ IsSchemaMessage(errors, NotMatchedTemplate)

\* C10: a call never changes the caller's payload: when the call is over the
\* payload has the keys and values it had when the call began.
C10_PayloadUnchanged ==
    pc = "done" => data = before

====
